---- MODULE Spec2Model ----
(***************************************************************************)
(* Model of velox/exec/LocalPlanner.cpp: the decomposition of a plan tree  *)
(* into driver factories (detail::plan, LocalPlanner::plan), the           *)
(* parallelism analysis (detail::maxDrivers) and the instantiation of one  *)
(* driver from a factory (DriverFactory::createDriver).                    *)
(*                                                                         *)
(* A plan node is a record.  Its id is its path from the root (the root is *)
(* <<0>>, the source at 0-based index i of node n is Append(n.id, i)), so  *)
(* that two nodes of one tree are never equal.  An optional value          *)
(* (std::optional, a nullable pointer) is a sequence of length 0 or 1.     *)
(***************************************************************************)
EXTENDS Integers, Sequences, FiniteSets, TLC

VARIABLES planTree, driverFactories, driver, pc

vars == <<planTree, driverFactories, driver, pc>>

\* ---------------------------------------------------------------- bounds
MaxNodes == 5
MaxWidth == 2
MaxLen == 3
MaxPlanNodes == 4

\* ------------------------------------------------------------ plan nodes
\* std::numeric_limits<uint32_t>::max(), the "unbounded" ceiling.  TLC's
\* integers are 32-bit signed, so the sentinel is their largest value; as in
\* the code, no declared cap exceeds it.
UINT32_MAX == 2147483647

nullopt == <<>>

Min(a, b) == IF a < b THEN a ELSE b

\* Kinds that have a branch of their own in detail::maxDrivers.
AnalyzedKinds ==
  {"Aggregation", "TopN", "Values", "Limit", "OrderBy", "LocalMerge",
   "MergeExchange", "TableWrite"}

\* A node of the given kind with no sources, no declared cap, and every
\* kind-specific attribute at its parallel-friendly value.
PlanNode(kind) ==
  [kind |-> kind, id |-> <<0>>, sources |-> <<>>, cap |-> nullopt,
   step |-> "kPartial", isPartial |-> TRUE, isParallelizable |-> TRUE,
   supportsMultiThreading |-> TRUE, extended |-> TRUE]

\* ------------------------------------------------------- tree utilities
IsPrefix(p, q) == Len(p) <= Len(q) /\ SubSeq(q, 1, Len(p)) = p

RECURSIVE NumNodes(_)
RECURSIVE SumNodes(_, _)
SumNodes(srcs, i) ==
  IF i > Len(srcs) THEN 0 ELSE NumNodes(srcs[i]) + SumNodes(srcs, i + 1)

NumNodes(t) == 1 + SumNodes(t.sources, 1)

RECURSIVE AllNodes(_)
AllNodes(t) ==
  {t} \cup UNION {AllNodes(t.sources[i]) : i \in DOMAIN t.sources}

RECURSIVE ReplaceAt(_, _, _)
ReplaceAt(t, id, new) ==
  IF t.id = id THEN new
  ELSE [t EXCEPT !.sources =
          [i \in DOMAIN t.sources |->
             IF IsPrefix(t.sources[i].id, id)
               THEN ReplaceAt(t.sources[i], id, new)
               ELSE t.sources[i]]]

\* ------------------------------------------ detail::mustStartNewPipeline
mustStartNewPipelineFirstOnly(planNode, sourceId) ==
  planNode.kind \in {"LocalMerge", "LocalPartition"}

mustStartNewPipeline(planNode, sourceId) ==
  IF planNode.kind = "LocalMerge" THEN TRUE
  ELSE IF planNode.kind = "LocalPartition" THEN TRUE
  ELSE sourceId # 0

\* ------------------------------------------ detail::makeConsumerSupplier
NoSupplier == [operator |-> "nullptr", consumer |-> "none", node |-> <<>>]

\* The overload taking the external ConsumerSupplier (a nullable callback).
makeConsumerSupplierFromCallback(consumerSupplier) ==
  IF consumerSupplier # nullopt
    THEN [operator |-> "CallbackSink", consumer |-> "external", node |-> <<>>]
    ELSE NoSupplier

makeConsumerSupplierNoMergeJoin(planNode) ==
  IF planNode.kind = "LocalMerge"
    THEN [operator |-> "CallbackSink", consumer |-> "LocalMergeSource",
          node |-> <<>>]
  ELSE IF planNode.kind = "LocalPartition"
    THEN [operator |-> "LocalPartition", consumer |-> "none",
          node |-> planNode.id]
  ELSE IF planNode.kind = "HashJoin"
    THEN [operator |-> "HashBuild", consumer |-> "none", node |-> planNode.id]
  ELSE NoSupplier

\* The overload taking the parent plan node.  The local-merge sink captures
\* nothing: it looks the queue up in the task by the driver id alone.
makeConsumerSupplier(planNode) ==
  IF planNode.kind = "LocalMerge"
    THEN [operator |-> "CallbackSink", consumer |-> "LocalMergeSource",
          node |-> <<>>]
  ELSE IF planNode.kind = "LocalPartition"
    THEN [operator |-> "LocalPartition", consumer |-> "none",
          node |-> planNode.id]
  ELSE IF planNode.kind = "HashJoin"
    THEN [operator |-> "HashBuild", consumer |-> "none", node |-> planNode.id]
  ELSE IF planNode.kind = "CrossJoin"
    THEN [operator |-> "CrossJoinBuild", consumer |-> "none",
          node |-> planNode.id]
  ELSE IF planNode.kind = "MergeJoin"
    THEN [operator |-> "CallbackSink", consumer |-> "MergeJoinSource",
          node |-> planNode.id]
  ELSE NoSupplier

\* ---------------------------------------------------------- detail::plan
\* A freshly constructed DriverFactory; maxDrivers is not yet computed.
DriverFactory(consumerSupplier) ==
  [planNodes |-> <<>>, consumerSupplier |-> consumerSupplier,
   inputDriver |-> FALSE, outputDriver |-> FALSE, maxDrivers |-> nullopt]

\* currentPlanNodes is the 1-based index of the factory whose node list the
\* pointer addresses; 0 is the null pointer.
nullptr == 0

startPipelineAlways(currentPlanNodes, consumerSupplier, factories) ==
  Append(factories, DriverFactory(consumerSupplier))

startPipeline(currentPlanNodes, consumerSupplier, factories) ==
  IF currentPlanNodes = nullptr
    THEN Append(factories, DriverFactory(consumerSupplier))
    ELSE factories

markInputFront(factories) == [factories EXCEPT ![1].inputDriver = TRUE]

\* driverFactories->back()->inputDriver = true
markInput(factories) ==
  [factories EXCEPT ![Len(factories)].inputDriver = TRUE]

RECURSIVE plan(_, _, _, _)
RECURSIVE planSources(_, _, _, _)
planSources(planNode, i, current, factories) ==
  IF i >= Len(planNode.sources) THEN factories
  ELSE planSources(planNode, i + 1, current,
         plan(planNode.sources[i + 1],
              IF mustStartNewPipeline(planNode, i) THEN nullptr ELSE current,
              makeConsumerSupplier(planNode),
              factories))

plan(planNode, currentPlanNodes, consumerSupplier, factories) ==
  LET started == startPipeline(currentPlanNodes, consumerSupplier, factories)
      current == IF currentPlanNodes = nullptr THEN Len(started)
                 ELSE currentPlanNodes
      walked == IF planNode.sources = <<>> THEN markInput(started)
                ELSE planSources(planNode, 0, current, started)
  IN  [walked EXCEPT ![current].planNodes = Append(@, planNode)]

\* ---------------------------------------------------- detail::maxDrivers
Returned(value) == [threw |-> FALSE, value |-> value]

VeloxCheckFailed == [threw |-> TRUE, value |-> 0]

\* Operator::maxDrivers(node): the cap the node declares, if any.
OperatorMaxDrivers(node) == node.cap

forcesSingleDriverNoLimit(node) ==
  \/ node.kind = "Aggregation" /\ node.step \in {"kFinal", "kSingle"}
  \/ node.kind = "TopN" /\ ~node.isPartial
  \/ node.kind = "Values" /\ ~node.isParallelizable
  \/ node.kind = "OrderBy" /\ ~node.isPartial
  \/ node.kind = "LocalMerge"
  \/ node.kind = "MergeExchange"
  \/ node.kind = "TableWrite" /\ ~node.supportsMultiThreading

\* The branches of the if / else-if chain that return 1.
forcesSingleDriver(node) ==
  \/ node.kind = "Aggregation" /\ node.step \in {"kFinal", "kSingle"}
  \/ node.kind = "TopN" /\ ~node.isPartial
  \/ node.kind = "Values" /\ ~node.isParallelizable
  \/ node.kind = "Limit" /\ ~node.isPartial
  \/ node.kind = "OrderBy" /\ ~node.isPartial
  \/ node.kind = "LocalMerge"
  \/ node.kind = "MergeExchange"
  \/ node.kind = "TableWrite" /\ ~node.supportsMultiThreading

checkGreaterOrEqual(a, b) == a >= b

\* VELOX_CHECK_GT(*result, 0, ...)
checkGreater(a, b) == a > b

foldCapOverwrite(result, count) == result

\* count = std::min(*result, count)
foldCap(result, count) == Min(result, count)

RECURSIVE maxDriversFrom(_, _, _)
maxDriversFrom(planNodes, i, count) ==
  IF i > Len(planNodes) THEN Returned(count)
  ELSE LET node == planNodes[i] IN
    IF node.kind \in AnalyzedKinds
      THEN IF forcesSingleDriver(node) THEN Returned(1)
           ELSE maxDriversFrom(planNodes, i + 1, count)
      ELSE LET result == OperatorMaxDrivers(node) IN
        IF result = nullopt THEN maxDriversFrom(planNodes, i + 1, count)
        ELSE IF ~checkGreater(result[1], 0) THEN VeloxCheckFailed
        ELSE IF result[1] = 1 THEN Returned(1)
        ELSE maxDriversFrom(planNodes, i + 1, foldCap(result[1], count))

maxDrivers(planNodes) == maxDriversFrom(planNodes, 1, UINT32_MAX)

\* ---------------------------------------------------- LocalPlanner::plan
\* The loop that stores maxDrivers in every factory; it stops at the first
\* factory whose analysis throws, leaving the later ceilings unset.
RECURSIVE annotate(_, _)
annotate(factories, k) ==
  IF k > Len(factories) THEN [threw |-> FALSE, factories |-> factories]
  ELSE LET r == maxDrivers(factories[k].planNodes) IN
    IF r.threw THEN [threw |-> TRUE, factories |-> factories]
    ELSE annotate([factories EXCEPT ![k].maxDrivers = <<r.value>>], k + 1)

LocalPlannerPlan(planNode, consumerSupplier, factories) ==
  LET planned == plan(planNode, nullptr,
                      makeConsumerSupplierFromCallback(consumerSupplier),
                      factories)
      flagged == [planned EXCEPT ![1].outputDriver = TRUE]
  IN  annotate(flagged, 1)

\* --------------------------------------------- DriverFactory::createDriver
Operator(type, operatorId, nodes) ==
  [type |-> type, operatorId |-> operatorId, nodes |-> nodes]

\* The operator class the closed dispatch constructs for a node kind; the
\* filter and project branches are handled apart because of the fusion.
OperatorTypes ==
  [k \in {"Values", "TableScan", "TableWrite", "MergeExchange", "Exchange",
          "PartitionedOutput", "HashJoin", "CrossJoin",
          "StreamingAggregation", "Aggregation", "TopN", "Limit", "OrderBy",
          "LocalMerge", "MergeJoin", "LocalPartition", "Unnest",
          "EnforceSingleRow", "AssignUniqueId"} |->
     CASE k = "TableWrite" -> "TableWriter"
       [] k = "HashJoin" -> "HashProbe"
       [] k = "CrossJoin" -> "CrossJoinProbe"
       [] k = "Aggregation" -> "HashAggregation"
       [] k = "LocalPartition" -> "LocalExchangeSourceOperator"
       [] OTHER -> k]

canFuseNever(planNodes, i) == FALSE

\* i is the 0-based loop index: the node is a filter, it is not the last
\* node, and the next node is a project.
canFuse(planNodes, i) ==
  /\ i < Len(planNodes) - 1
  /\ planNodes[i + 2].kind = "Project"

operatorIdLoopIndex(kind, i, operators) == i

\* The id handed to the operator's constructor: operators.size() at the top
\* of the iteration, except that the merge-exchange branch passes the loop
\* index.
operatorId(kind, i, operators) ==
  IF kind = "MergeExchange" THEN i ELSE Len(operators)

sinkNever(consumerSupplier, built) == built

\* if (consumerSupplier) operators.push_back(consumerSupplier(size, ctx))
sink(consumerSupplier, built) ==
  IF consumerSupplier # NoSupplier
    THEN [built EXCEPT !.operators =
            Append(@, Operator(consumerSupplier.operator, Len(@), <<>>))]
    ELSE built

\* built carries the operators made so far and the task's coordination
\* objects created on the way; i is the 0-based loop index.
RECURSIVE createOperators(_, _, _, _, _)
createOperators(planNodes, i, built, pipelineId, numDrivers) ==
  IF i >= Len(planNodes) THEN built
  ELSE
    LET planNode == planNodes[i + 1]
        id == operatorId(planNode.kind, i, built.operators)
        push(type, nodes) ==
          [built EXCEPT !.operators = Append(@, Operator(type, id, nodes))]
    IN
    IF planNode.kind = "Filter" THEN
      IF canFuse(planNodes, i)
        THEN createOperators(planNodes, i + 2,
               push("FilterProject", <<i, i + 1>>), pipelineId, numDrivers)
        ELSE createOperators(planNodes, i + 1,
               push("FilterProject", <<i>>), pipelineId, numDrivers)
    ELSE IF planNode.kind = "Project" THEN
      createOperators(planNodes, i + 1,
        push("FilterProject", <<i>>), pipelineId, numDrivers)
    ELSE IF planNode.kind = "LocalMerge" THEN
      LET numSources == numDrivers[pipelineId + 1] IN
      createOperators(planNodes, i + 1,
        [push("LocalMerge", <<i>>) EXCEPT
           !.localMergeSources = Append(@, numSources)],
        pipelineId, numDrivers)
    ELSE IF planNode.kind = "MergeJoin" THEN
      createOperators(planNodes, i + 1,
        [push("MergeJoin", <<i>>) EXCEPT
           !.mergeJoinSources = @ \cup {planNode.id}],
        pipelineId, numDrivers)
    ELSE IF planNode.kind \in DOMAIN OperatorTypes THEN
      createOperators(planNodes, i + 1,
        push(OperatorTypes[planNode.kind], <<i>>), pipelineId, numDrivers)
    ELSE IF planNode.extended THEN
      createOperators(planNodes, i + 1,
        push("Extended", <<i>>), pipelineId, numDrivers)
    ELSE [built EXCEPT !.threw = TRUE]

createDriver(factory, pipelineId, numDrivers) ==
  LET built == createOperators(factory.planNodes, 0,
                 [threw |-> FALSE, operators |-> <<>>,
                  localMergeSources |-> <<>>, mergeJoinSources |-> {}],
                 pipelineId, numDrivers)
  IN  IF built.threw THEN built ELSE sink(factory.consumerSupplier, built)

\* ------------------------------------------------------------ tree input
TreeCaps == {nullopt, <<0>>, <<2>>}

\* Numbers of sources the node kinds of the tree model take.
Arities ==
  [k \in {"TableScan", "Custom", "Filter", "HashJoin", "CrossJoin",
          "MergeJoin", "LocalMerge", "LocalPartition"} |->
     CASE k = "TableScan" -> {0}
       [] k = "Custom" -> {2}
       [] k = "Filter" -> {1}
       [] k \in {"HashJoin", "CrossJoin", "MergeJoin"} -> {2}
       [] OTHER -> {1, 2}]

Leaf(id) == [PlanNode("TableScan") EXCEPT !.id = id]

NoDriver ==
  [pipelineId |-> 0, width |-> 0, threw |-> FALSE, operators |-> <<>>,
   localMergeSources |-> <<>>, mergeJoinSources |-> {}]

Init ==
  /\ planTree = Leaf(<<0>>)
  /\ driverFactories = <<>>
  /\ driver = NoDriver
  /\ pc = "building"

\* The logical planner grows the tree: a scan leaf becomes a node of another
\* kind over fresh scan leaves.
Expand ==
  /\ pc = "building"
  /\ \E n \in AllNodes(planTree), k \in DOMAIN Arities :
       \E a \in Arities[k] :
         /\ n.kind = "TableScan"
         /\ k # "TableScan"
         /\ NumNodes(planTree) + a <= MaxNodes
         /\ planTree' = ReplaceAt(planTree, n.id,
              [n EXCEPT !.kind = k,
                        !.sources = [i \in 1..a |-> Leaf(Append(n.id, i - 1))]])
  /\ UNCHANGED <<driverFactories, driver, pc>>

\* An extension node declares a parallelism cap (through its translator).
DeclareCap ==
  /\ pc = "building"
  /\ \E n \in AllNodes(planTree), c \in TreeCaps \ {nullopt} :
       /\ n.cap = nullopt
       /\ n.kind = "Custom"
       /\ planTree' = ReplaceAt(planTree, n.id, [n EXCEPT !.cap = c])
  /\ UNCHANGED <<driverFactories, driver, pc>>

\* LocalPlanner::plan on an empty factory list.
Plan ==
  /\ pc = "building"
  /\ \E consumerSupplier \in {nullopt, <<"consumer">>} :
       LET r == LocalPlannerPlan(planTree, consumerSupplier, <<>>) IN
         /\ driverFactories' = r.factories
         /\ pc' = IF r.threw THEN "failed" ELSE "planned"
  /\ UNCHANGED <<planTree, driver>>

\* The task's instance count of pipeline q (0-based) when it runs with the
\* configured width: the smaller of the width and the factory's ceiling.
TaskNumDrivers(factories, width) ==
  [q \in 0..Len(factories) |->
     IF q < Len(factories) /\ factories[q + 1].maxDrivers # nullopt
       THEN Min(width, factories[q + 1].maxDrivers[1])
       ELSE width]

\* DriverFactory::createDriver for one pipeline of the planned task.
CreateDriver ==
  /\ pc = "planned"
  /\ \E p \in 1..Len(driverFactories), width \in 1..MaxWidth :
       LET built == createDriver(driverFactories[p], p - 1,
                      TaskNumDrivers(driverFactories, width))
       IN  driver' = [pipelineId |-> p - 1, width |-> width,
                      threw |-> built.threw, operators |-> built.operators,
                      localMergeSources |-> built.localMergeSources,
                      mergeJoinSources |-> built.mergeJoinSources]
  /\ pc' = "driver"
  /\ UNCHANGED <<planTree, driverFactories>>

Next == Expand \/ DeclareCap \/ Plan \/ CreateDriver

Spec == Init /\ [][Next]_vars

\* ======================================================= plan decomposition
Last(seq) == seq[Len(seq)]

Front(seq) == SubSeq(seq, 1, Len(seq) - 1)

\* LocalPlanner::plan has walked the tree.
AfterPlan == pc # "building"

Factories == 1..Len(driverFactories)

\* The factories in whose node list node n stands.
DescriptorsOf(n) ==
  {k \in Factories :
     \E j \in DOMAIN driverFactories[k].planNodes :
       driverFactories[k].planNodes[j] = n}

SameDescriptor(a, b) ==
  /\ Cardinality(DescriptorsOf(a)) = 1
  /\ DescriptorsOf(a) = DescriptorsOf(b)

\* Source s of node n stands in one factory, which is not the factory of n
\* and which ends with s (the factory was started for s).
OwnDescriptor(s, n) ==
  \E k \in Factories :
    /\ DescriptorsOf(s) = {k}
    /\ k \notin DescriptorsOf(n)
    /\ Last(driverFactories[k].planNodes) = s

MultiSourceNodes == {n \in AllNodes(planTree) : Len(n.sources) >= 2}

BoundaryKinds == {"LocalMerge", "LocalPartition"}

\* C1 as claimed: after LocalPlanner::plan, for every node with two or more
\* sources, whatever its kind, source 0 stands in the node's factory and
\* every source of index > 0 stands in a factory of its own.
C1_AsClaimed ==
  AfterPlan =>
    \A n \in MultiSourceNodes :
      /\ SameDescriptor(n.sources[1], n)
      /\ \A i \in 2..Len(n.sources) : OwnDescriptor(n.sources[i], n)

\* C1 amended: after LocalPlanner::plan, for every node with two or more
\* sources, every source of index > 0 stands in a factory of its own; source
\* 0 stands in the node's factory when the node is neither a local merge nor
\* a local partition, and in a factory of its own when it is one of the two.
C1_SourcePlacement ==
  AfterPlan =>
    \A n \in MultiSourceNodes :
      /\ \A i \in 2..Len(n.sources) : OwnDescriptor(n.sources[i], n)
      /\ IF n.kind \in BoundaryKinds
           THEN OwnDescriptor(n.sources[1], n)
           ELSE SameDescriptor(n.sources[1], n)

C1_Witness ==
  /\ pc = "planned"
  /\ \E n \in MultiSourceNodes : n.kind \in BoundaryKinds
  /\ \E n \in MultiSourceNodes :
       n.kind \notin BoundaryKinds /\ Len(n.sources[1].sources) > 0

\* C2: after LocalPlanner::plan, a factory is marked as an input pipeline
\* exactly when the first node of its node list has no sources.
C2_InputDriverIffLeafFirst ==
  AfterPlan =>
    \A k \in Factories :
      /\ driverFactories[k].planNodes # <<>>
      /\ driverFactories[k].inputDriver
           <=> (driverFactories[k].planNodes[1].sources = <<>>)

C2_Witness ==
  /\ pc = "planned"
  /\ \E k \in Factories :
       /\ driverFactories[k].planNodes[1].kind \in BoundaryKinds
       /\ ~driverFactories[k].inputDriver
       /\ k < Len(driverFactories)
  /\ \E k \in Factories :
       /\ k > 1
       /\ driverFactories[k].inputDriver
       /\ Len(driverFactories[k].planNodes) > 1

\* The parent-to-source edges for which the boundary policy holds.
BoundaryEdges ==
  {e \in {<<n.id, i>> : n \in AllNodes(planTree), i \in 0..(MaxNodes + 1)} :
     \E n \in AllNodes(planTree) :
       /\ n.id = e[1]
       /\ e[2] < Len(n.sources)
       /\ mustStartNewPipeline(n, e[2])}

\* C3: the number of factories LocalPlanner::plan appends to the empty list
\* is 1 plus the number of edges for which mustStartNewPipeline is true.
C3_DescriptorCount ==
  AfterPlan => Len(driverFactories) = 1 + Cardinality(BoundaryEdges)

C3_Witness ==
  /\ pc = "planned"
  /\ Cardinality(BoundaryEdges) >= 2
  /\ Cardinality(BoundaryEdges) < NumNodes(planTree) - 1

\* The node of the tree that has n among its sources (n is not the root).
ParentOf(n) == CHOOSE m \in AllNodes(planTree) : m.id = Front(n.id)

\* The sink each of the five branching kinds is documented to supply.
DocumentedSinks ==
  [k \in {"LocalMerge", "LocalPartition", "HashJoin", "CrossJoin",
          "MergeJoin"} |->
     CASE k = "LocalMerge" -> <<"CallbackSink", "LocalMergeSource">>
       [] k = "LocalPartition" -> <<"LocalPartition", "none">>
       [] k = "HashJoin" -> <<"HashBuild", "none">>
       [] k = "CrossJoin" -> <<"CrossJoinBuild", "none">>
       [] k = "MergeJoin" -> <<"CallbackSink", "MergeJoinSource">>]

HasDocumentedSink(k) ==
  LET parent == ParentOf(Last(driverFactories[k].planNodes))
      supplier == driverFactories[k].consumerSupplier
  IN  /\ parent.kind \in DOMAIN DocumentedSinks
      /\ <<supplier.operator, supplier.consumer>> = DocumentedSinks[parent.kind]

ExternalConsumer ==
  /\ AfterPlan
  /\ driverFactories[1].consumerSupplier.consumer = "external"
  /\ driverFactories[1].consumerSupplier.operator = "CallbackSink"

TerminalConsumerGiven ==
  AfterPlan /\ driverFactories[1].consumerSupplier # NoSupplier

\* C9 as claimed: with a non-null terminal consumer, factory 0 carries the
\* sink of the external callback and every other factory carries the sink of
\* the parent of its last node; no factory is left without a sink.
C9_AsClaimed ==
  TerminalConsumerGiven =>
    /\ ExternalConsumer
    /\ \A k \in Factories \ {1} :
         /\ driverFactories[k].consumerSupplier # NoSupplier
         /\ HasDocumentedSink(k)

\* C9 amended: with a non-null terminal consumer, factory 0 carries the sink
\* of the external callback; every other factory carries the sink of the
\* parent of its last node when that parent is a local merge, a local
\* partition, or a hash, cross or merge join, and carries no supplier when
\* the parent is of any other kind.
C9_SinkPerParentKind ==
  TerminalConsumerGiven =>
    /\ ExternalConsumer
    /\ \A k \in Factories \ {1} :
         IF ParentOf(Last(driverFactories[k].planNodes)).kind
              \in DOMAIN DocumentedSinks
           THEN HasDocumentedSink(k)
           ELSE driverFactories[k].consumerSupplier = NoSupplier

C9_Witness ==
  /\ pc = "planned"
  /\ TerminalConsumerGiven
  /\ \E k \in Factories \ {1} :
       driverFactories[k].consumerSupplier = NoSupplier
  /\ \E k \in Factories \ {1} :
       driverFactories[k].consumerSupplier.consumer = "MergeJoinSource"

\* ------------------------------------------------- local merge input queues
\* The factories whose sink enqueues into the queues of local merge m.
Feeders(m) ==
  {d \in Factories :
     /\ driverFactories[d].consumerSupplier.consumer = "LocalMergeSource"
     /\ d > 1
     /\ ParentOf(Last(driverFactories[d].planNodes)) = m}

\* The producer instances of local merge m: <<factory, driver id>>.
Producers(m, numDrivers) ==
  {pr \in Feeders(m) \X (0..(MaxWidth + 1)) : pr[2] < numDrivers[pr[1] - 1]}

\* C10: when the driver of the factory k holding local merge m is created,
\* the only factory feeding m is k+1, the number of queues created equals the
\* number of producer instances, and every producer's queue (addressed by
\* its driver id) exists and is addressed by no other producer.
C10_AsClaimed ==
  (pc = "driver" /\ ~driver.threw) =>
    \A m \in AllNodes(planTree) :
      (m.kind = "LocalMerge" /\ (driver.pipelineId + 1) \in DescriptorsOf(m)) =>
        LET numDrivers == TaskNumDrivers(driverFactories, driver.width)
            queues == driver.localMergeSources[1]
        IN  /\ Feeders(m) = {driver.pipelineId + 2}
            /\ Cardinality(Producers(m, numDrivers)) = queues
            /\ \A pr \in Producers(m, numDrivers) :
                 /\ pr[2] < queues
                 /\ \A other \in Producers(m, numDrivers) :
                      other # pr => other[2] # pr[2]

\* The same statement for the local merges that have exactly one source.
C10_SingleSource ==
  (pc = "driver" /\ ~driver.threw) =>
    \A m \in AllNodes(planTree) :
      (/\ m.kind = "LocalMerge"
       /\ Len(m.sources) = 1
       /\ (driver.pipelineId + 1) \in DescriptorsOf(m)) =>
        LET numDrivers == TaskNumDrivers(driverFactories, driver.width)
            queues == driver.localMergeSources[1]
        IN  /\ Feeders(m) = {driver.pipelineId + 2}
            /\ Cardinality(Producers(m, numDrivers)) = queues
            /\ \A pr \in Producers(m, numDrivers) :
                 /\ pr[2] < queues
                 /\ \A other \in Producers(m, numDrivers) :
                      other # pr => other[2] # pr[2]

\* ===================================================== parallelism analysis
\* The node lists handed to detail::maxDrivers: every analysed kind in its
\* forcing and (where it has one) non-forcing variant, and a kind without a
\* branch of its own; the non-forcing ones with and without a declared cap.
ForcingNodes ==
  {[PlanNode("Aggregation") EXCEPT !.step = "kFinal"],
   [PlanNode("Aggregation") EXCEPT !.step = "kSingle"],
   [PlanNode("TopN") EXCEPT !.isPartial = FALSE],
   [PlanNode("Values") EXCEPT !.isParallelizable = FALSE],
   [PlanNode("Limit") EXCEPT !.isPartial = FALSE],
   [PlanNode("OrderBy") EXCEPT !.isPartial = FALSE],
   PlanNode("LocalMerge"),
   PlanNode("MergeExchange"),
   [PlanNode("TableWrite") EXCEPT !.supportsMultiThreading = FALSE]}

PartialNodes ==
  {[PlanNode(k) EXCEPT !.cap = c] :
     k \in {"Aggregation", "TopN", "Values", "Limit", "OrderBy", "TableWrite"},
     c \in {nullopt, <<0>>, <<2>>}}

OtherNodes ==
  {[PlanNode("Filter") EXCEPT !.cap = c] :
     c \in {nullopt, <<0>>, <<1>>, <<2>>, <<3>>}}

AnalysisNodes == ForcingNodes \cup PartialNodes \cup OtherNodes

InitAnalysis ==
  /\ planTree = Leaf(<<0>>)
  /\ driverFactories = <<DriverFactory(NoSupplier)>>
  /\ driver = NoDriver
  /\ pc = "listing"

\* One more node stands in the factory's node list.
AppendNode ==
  /\ pc = "listing"
  /\ Len(driverFactories[1].planNodes) < MaxLen
  /\ \E node \in AnalysisNodes :
       driverFactories' =
         [driverFactories EXCEPT ![1].planNodes = Append(@, node)]
  /\ UNCHANGED <<planTree, driver, pc>>

\* factory->maxDrivers = detail::maxDrivers(factory->planNodes)
Analyze ==
  /\ pc = "listing"
  /\ LET r == annotate(driverFactories, 1) IN
       /\ driverFactories' = r.factories
       /\ pc' = IF r.threw THEN "failed" ELSE "analyzed"
  /\ UNCHANGED <<planTree, driver>>

NextAnalysis == AppendNode \/ Analyze

SpecAnalysis == InitAnalysis /\ [][NextAnalysis]_vars

analyzedNodes == driverFactories[1].planNodes

AnalysisDone == pc \in {"analyzed", "failed"}

\* The node is one of the forcing nodes the analysis is documented to stop at.
IsForcing(node) ==
  \/ node.kind = "Aggregation" /\ node.step \in {"kFinal", "kSingle"}
  \/ node.kind \in {"TopN", "Limit", "OrderBy"} /\ ~node.isPartial
  \/ node.kind = "Values" /\ ~node.isParallelizable
  \/ node.kind \in {"LocalMerge", "MergeExchange"}
  \/ node.kind = "TableWrite" /\ ~node.supportsMultiThreading

\* The node's kind is none of the eight with a branch of their own, so its
\* declared cap is looked at.
IsConsulted(node) ==
  node.kind \notin {"Aggregation", "TopN", "Values", "Limit", "OrderBy",
                    "LocalMerge", "MergeExchange", "TableWrite"}

HasForcing == \E i \in DOMAIN analyzedNodes : IsForcing(analyzedNodes[i])

\* Position i holds a consulted cap of 0 that the scan reaches: no forcing
\* node and no consulted cap of 1 stands before it.
ReachedZeroCap(i) ==
  /\ IsConsulted(analyzedNodes[i])
  /\ analyzedNodes[i].cap = <<0>>
  /\ \A j \in 1..(i - 1) :
       /\ ~IsForcing(analyzedNodes[j])
       /\ ~(IsConsulted(analyzedNodes[j]) /\ analyzedNodes[j].cap = <<1>>)

ReachesZeroCap == \E i \in DOMAIN analyzedNodes : ReachedZeroCap(i)

ReturnedCeiling(value) ==
  pc = "analyzed" /\ driverFactories[1].maxDrivers = <<value>>

RECURSIVE MinOf(_, _)
MinOf(S, top) ==
  IF S = {} THEN top
  ELSE LET x == CHOOSE x \in S : TRUE IN Min(x, MinOf(S \ {x}, top))

DeclaredCaps(nodes) ==
  {nodes[i].cap[1] : i \in {j \in DOMAIN nodes : nodes[j].cap # nullopt}}

ConsultedCaps(nodes) ==
  {nodes[i].cap[1] :
     i \in {j \in DOMAIN nodes : nodes[j].cap # nullopt /\ IsConsulted(nodes[j])}}

\* C4 as claimed: maxDrivers returns 1 for every list that holds a forcing
\* node, wherever it stands and whatever cap any other node declares.
C4_AsClaimed ==
  (AnalysisDone /\ HasForcing) => ReturnedCeiling(1)

\* C4 amended: for every list that holds a forcing node, maxDrivers returns 1
\* unless a node outside the eight analysed kinds that declares a cap of 0
\* stands before the first forcing node with no such node declaring 1 before
\* it; in that case it raises the fatal error.
C4_ForcingReturnsOneUnlessZeroCapFirst ==
  (AnalysisDone /\ HasForcing) =>
    IF ReachesZeroCap THEN pc = "failed" ELSE ReturnedCeiling(1)

C4_Witness ==
  /\ ReturnedCeiling(1)
  /\ Len(analyzedNodes) = 3
  /\ IsForcing(analyzedNodes[3])
  /\ analyzedNodes[1].cap = <<2>> /\ IsConsulted(analyzedNodes[1])
  /\ analyzedNodes[2].cap = <<0>> /\ ~IsConsulted(analyzedNodes[2])

\* C5 as claimed: for every list without a forcing node, maxDrivers returns
\* the minimum of the caps declared by all nodes of every kind, and the
\* unbounded sentinel exactly when no node declares a cap.
C5_AsClaimed ==
  (AnalysisDone /\ ~HasForcing) =>
    /\ ReturnedCeiling(MinOf(DeclaredCaps(analyzedNodes), UINT32_MAX))
    /\ ReturnedCeiling(UINT32_MAX) <=> (DeclaredCaps(analyzedNodes) = {})

\* C5 amended: for every list without a forcing node, only the caps declared
\* by nodes outside the eight analysed kinds count.  If none of them is 0,
\* maxDrivers returns their minimum, and the unbounded sentinel exactly when
\* there is none; if one is 0, it raises the fatal error, unless a cap of 1
\* stands before the first 0, in which case it returns 1.
C5_MinOfConsultedCaps ==
  (AnalysisDone /\ ~HasForcing) =>
    IF 0 \notin ConsultedCaps(analyzedNodes)
      THEN /\ ReturnedCeiling(MinOf(ConsultedCaps(analyzedNodes), UINT32_MAX))
           /\ ReturnedCeiling(UINT32_MAX)
                <=> (ConsultedCaps(analyzedNodes) = {})
      ELSE IF ReachesZeroCap THEN pc = "failed" ELSE ReturnedCeiling(1)

C5_Witness ==
  /\ ReturnedCeiling(2)
  /\ ~HasForcing
  /\ Len(analyzedNodes) = 3
  /\ analyzedNodes[1].cap = <<3>>
  /\ analyzedNodes[2].kind = "Aggregation" /\ analyzedNodes[2].cap = <<0>>
  /\ analyzedNodes[3].cap = <<2>>

\* C6 as claimed: the analysis ends in the fatal error for every list in
\* which some node declares a cap of 0, wherever it stands and whatever
\* stands before it.
C6_AsClaimed ==
  (AnalysisDone /\ 0 \in DeclaredCaps(analyzedNodes)) => pc = "failed"

\* C6 amended: the analysis ends in the fatal error exactly when a node
\* outside the eight analysed kinds declares a cap of 0 and neither a forcing
\* node nor such a node declaring a cap of 1 stands before it in the list.
C6_FatalIffZeroCapReached ==
  AnalysisDone => (pc = "failed" <=> ReachesZeroCap)

C6_Witness ==
  /\ pc = "failed"
  /\ Len(analyzedNodes) = 3
  /\ analyzedNodes[1].cap = <<2>>
  /\ analyzedNodes[2].cap = <<0>> /\ analyzedNodes[2].kind # "Filter"
  /\ analyzedNodes[3].cap = <<0>> /\ analyzedNodes[3].kind = "Filter"

\* ====================================================== driver instantiation
\* The node kinds of the lists handed to createDriver: the two fusable kinds,
\* closed-dispatch kinds (among them the merge exchange and the local merge,
\* which has a side effect), and an extension node that the registry does or
\* does not resolve.
DriverNodes ==
  {PlanNode(k) :
     k \in {"Filter", "Project", "TableScan", "MergeExchange", "LocalMerge",
            "Custom"}}
  \cup {[PlanNode("Custom") EXCEPT !.extended = FALSE]}

DriverSuppliers ==
  {NoSupplier,
   makeConsumerSupplierFromCallback(<<"consumer">>),
   makeConsumerSupplier(PlanNode("HashJoin"))}

InitDriver ==
  /\ planTree = Leaf(<<0>>)
  /\ \E supplier \in DriverSuppliers :
       driverFactories = <<DriverFactory(supplier)>>
  /\ driver = NoDriver
  /\ pc = "listing"

\* One more node stands in the factory's node list.
AppendDriverNode ==
  /\ pc = "listing"
  /\ Len(driverFactories[1].planNodes) < MaxPlanNodes
  /\ \E node \in DriverNodes :
       driverFactories' =
         [driverFactories EXCEPT ![1].planNodes = Append(@, node)]
  /\ UNCHANGED <<planTree, driver, pc>>

\* DriverFactory::createDriver for pipeline 0, the next pipeline running
\* with the given number of drivers.
Instantiate ==
  /\ pc = "listing"
  /\ \E width \in 1..MaxWidth :
       LET built == createDriver(driverFactories[1], 0, [q \in 0..1 |-> width])
       IN  driver' = [pipelineId |-> 0, width |-> width,
                      threw |-> built.threw, operators |-> built.operators,
                      localMergeSources |-> built.localMergeSources,
                      mergeJoinSources |-> built.mergeJoinSources]
  /\ pc' = "driver"
  /\ UNCHANGED <<planTree, driverFactories>>

NextDriver == AppendDriverNode \/ Instantiate

SpecDriver == InitDriver /\ [][NextDriver]_vars

\* createDriver returned a driver.
Instantiated == pc = "driver" /\ ~driver.threw

driverNodes == driverFactories[1].planNodes

HasSink == driverFactories[1].consumerSupplier # NoSupplier

\* The 0-based indices of the filters immediately followed by a project.
FusedPairs ==
  {i \in 0..(Len(driverNodes) - 2) :
     driverNodes[i + 1].kind = "Filter" /\ driverNodes[i + 2].kind = "Project"}

\* C7: the operator constructed at position p of the operator list (the sink
\* included) is given operator id p.
C7_AsClaimed ==
  Instantiated =>
    \A p \in DOMAIN driver.operators : driver.operators[p].operatorId = p - 1

\* The number of operators made for plan nodes (all but the sink).
BodyLen == Len(driver.operators) - (IF HasSink THEN 1 ELSE 0)

\* C8: the operators stand in node-list order, one per node, except that a
\* filter immediately followed by a project shares one filter-project
\* operator with it; any other filter or project has a filter-project
\* operator of its own; one sink is appended last exactly when the factory
\* carries a consumer supplier; so the operator count is the node count
\* minus the fused pairs plus one for the supplier.
C8_OperatorsPerNode ==
  Instantiated =>
    /\ Len(driver.operators) =
         Len(driverNodes) - Cardinality(FusedPairs) + (IF HasSink THEN 1 ELSE 0)
    /\ HasSink =>
         /\ Last(driver.operators).nodes = <<>>
         /\ Last(driver.operators).type =
              driverFactories[1].consumerSupplier.operator
    /\ (BodyLen = 0) <=> (driverNodes = <<>>)
    /\ \A p \in 1..BodyLen :
         LET op == driver.operators[p] IN
           /\ op.nodes # <<>>
           /\ op.nodes[1] =
                IF p = 1 THEN 0 ELSE Last(driver.operators[p - 1].nodes) + 1
           /\ p = BodyLen => Last(op.nodes) = Len(driverNodes) - 1
           /\ IF op.nodes[1] \in FusedPairs
                THEN op.nodes = <<op.nodes[1], op.nodes[1] + 1>>
                ELSE Len(op.nodes) = 1
           /\ (op.type = "FilterProject")
                <=> (driverNodes[op.nodes[1] + 1].kind \in {"Filter", "Project"})

C8_Witness ==
  /\ Instantiated
  /\ HasSink
  /\ Len(driverNodes) = 4
  /\ driverNodes[1].kind = "Project"
  /\ driverNodes[2].kind = "Filter"
  /\ driverNodes[3].kind = "Filter"
  /\ driverNodes[4].kind = "Project"
  /\ Len(driver.operators) = 4

====
